---- MODULE Spec2Model ----
(***************************************************************************)
(* A model of torus.py: the Torus class (a bit-packed, file-backed binary  *)
(* de Bruijn torus), its transpose() and make() operations, and the        *)
(* debruijn() sequence generator.                                          *)
(*                                                                         *)
(* A Python int is modelled as its binary numeral without leading zeros,   *)
(* most significant bit first (0 is the empty sequence), so that rows of   *)
(* any width are exact, as Python's arbitrary-precision integers are.      *)
(* A file is the sequence of its bytes (0..255).                           *)
(***************************************************************************)
EXTENDS Integers, Sequences, FiniteSets, TLC

VARIABLES
    self,      \* the Torus object: r, s, m, n, row_sums, col_sums
    file,      \* bytes of self.file, the addressable store
    temp,      \* self.temp: <<>> when the file does not exist, <<bytes>> when it does
    err,       \* how the last call ended: "none" or the exception raised
    written,   \* the lines the last call handed to f.write, each as its s bits
    hist,      \* the calls made so far, oldest first: [op, seed, err]
    prior,     \* [self, file, temp] before the last call
    prior2,    \* [self, file, temp] before the call before that
    db         \* the locals of a running debruijn(): order, seq, word, i

vars == <<self, file, temp, err, written, hist, prior, prior2, db>>

\* ------------------------------------------------------------------ bounds

\* the number of calls made on one Torus
MaxOps == 3
\* make() is not called when the result would hold more than 2^MaxLog cells
MaxLog == 8
\* an injected storage failure hits one of the first MaxFail + 1 reads or writes
MaxFail == 1
\* debruijn() is run for the orders 1 .. MaxDbOrder
MaxDbOrder == 8

\* ------------------------------------------------------- Python int and bytes

Max(a, b) == IF a >= b THEN a ELSE b
Min(a, b) == IF a <= b THEN a ELSE b

Zeros(k) == [j \in 1..k |-> 0]
Ones(k) == [j \in 1..k |-> 1]

\* the numeral of a bit string: int(bits, 2) drops the leading zeros
Strip(b) ==
    IF \A j \in 1..Len(b) : b[j] = 0 THEN <<>>
    ELSE SubSeq(b, CHOOSE j \in 1..Len(b) : b[j] = 1 /\ \A k \in 1..(j-1) : b[k] = 0, Len(b))

PadTo(b, w) == IF Len(b) >= w THEN b ELSE Zeros(w - Len(b)) \o b

\* f'{num:0{w}b}'
Format(num, w) == IF num = <<>> THEN Zeros(Max(w, 1)) ELSE PadTo(num, w)

\* a ^ b of two numerals of one length
XorPadded(pa, pb) == Strip([j \in 1..Len(pa) |-> (pa[j] + pb[j]) % 2])

\* a ^ b
Xor(a, b) == XorPadded(PadTo(a, Max(Len(a), Len(b))), PadTo(b, Max(Len(a), Len(b))))

\* a << k
ShiftLeft(a, k) == IF a = <<>> THEN <<>> ELSE a \o Zeros(k)

\* the carry out of position k (1 is the most significant) in pa + pb: 1 when
\* some position g at or below k has both bits set and every position from k
\* to g - 1 has one set
Carry(pa, pb, k) ==
    IF \E g \in k..Len(pa) : /\ pa[g] + pb[g] = 2
                             /\ \A h \in k..(g - 1) : pa[h] + pb[h] = 1
    THEN 1 ELSE 0

\* a + b of two numerals of one length
AddPadded(pa, pb) ==
    Strip(<<Carry(pa, pb, 1)>>
          \o [k \in 1..Len(pa) |-> (pa[k] + pb[k] + Carry(pa, pb, k + 1)) % 2])

\* a + b
Add(a, b) == AddPadded(PadTo(a, Max(Len(a), Len(b))), PadTo(b, Max(Len(a), Len(b))))

\* (1 << w) - 1
AllOnes(w) == Ones(w)

_popcount(num) == Cardinality({j \in 1..Len(num) : num[j] = 1})

_list_to_num(line) == Strip(line)

\* a byte read with its lowest bit first
ByteValReversed(p, k) ==
    p[8*k]*128 + p[8*k - 1]*64 + p[8*k - 2]*32 + p[8*k - 3]*16
      + p[8*k - 4]*8 + p[8*k - 5]*4 + p[8*k - 6]*2 + p[8*k - 7]

_bytes(k) == (k + 7) \div 8

ByteVal(p, k) ==
    p[8*k - 7]*128 + p[8*k - 6]*64 + p[8*k - 5]*32 + p[8*k - 4]*16
      + p[8*k - 3]*8 + p[8*k - 2]*4 + p[8*k - 1]*2 + p[8*k]

\* bit j (1 is the most significant) of byte v
ByteBit(v, j) == (v \div 2^(8 - j)) % 2

\* what stands for the bytes when num.to_bytes raises OverflowError
Overflow == <<-1>>

\* the bytes of a numeral of 8 * length bits
BytesOf(p, length) == [k \in 1..length |-> ByteVal(p, k)]

\* num.to_bytes(length, 'big')
ToBytes(num, length) ==
    IF Len(num) > 8 * length THEN Overflow ELSE BytesOf(PadTo(num, 8 * length), length)

\* int.from_bytes(bs, 'big')
FromBytes(bs) ==
    Strip([j \in 1..(8 * Len(bs)) |-> ByteBit(bs[((j-1) \div 8) + 1], ((j-1) % 8) + 1)])

\* f.read(len) at byte offset pos: a short read at the end of the file
Read(data, pos, len) ==
    IF pos >= Len(data) THEN <<>> ELSE SubSeq(data, pos + 1, Min(pos + len, Len(data)))

\* ------------------------------------------------------------- file access

\* records of `length` bytes each, one after the other
Records(recs, length) ==
    SubSeq([q \in 1..(length * Len(recs)) |->
               recs[((q - 1) \div length) + 1][((q - 1) % length) + 1]],
           1, length * Len(recs))

\* the bytes _write_from_num writes: each line's to_bytes(length, 'big')
_write_from_num(length, lines) ==
    Records([k \in 1..Len(lines) |-> ToBytes(lines[k], length)], length)

\* the bytes _write_from_array writes: each line read as a numeral, then as above
_write_from_array(length, lines) ==
    Records([k \in 1..Len(lines) |-> ToBytes(Strip(lines[k]), length)], length)

_read_to_num(data, pos, t) == FromBytes(Read(data, pos, _bytes(t.s)))

_read_to_array(data, pos, t) == Format(FromBytes(Read(data, pos, _bytes(t.s))), t.s)

\* the int of a parity: 0 or 1
Bit(p) == IF p = 0 THEN <<>> ELSE <<1>>

NoFail == [kind |-> "none", at |-> 0]
NoSeed == [given |-> FALSE, val |-> <<>>]

\* ---------------------------------------------------------------- __init__

\* one pass of `for row in values`
InitRow(acc, row_num) ==
    [row_sums |-> Add(ShiftLeft(acc.row_sums, 1), Bit(_popcount(row_num) % 2)),
     col_sums |-> Xor(acc.col_sums, row_num)]

RECURSIVE InitSums(_, _, _)
InitSums(values, k, acc) ==
    IF k > Len(values) THEN acc
    ELSE InitSums(values, k + 1, InitRow(acc, _list_to_num(values[k])))

\* the object and the file that Torus(values, m, n, storage) leaves
Constructed(values, mm, nn, sums) ==
    [self |-> [r |-> Len(values), s |-> Len(values[1]), m |-> mm, n |-> nn,
               row_sums |-> sums.row_sums, col_sums |-> sums.col_sums],
     file |-> _write_from_array(_bytes(Len(values[1])), values),
     temp |-> <<>>,
     err |-> "none",
     written |-> values]

\* Torus(values, m, n, storage), when r * s = 2^(m*n)
Construct(values, mm, nn) ==
    Constructed(values, mm, nn, InitSums(values, 1, [row_sums |-> <<>>, col_sums |-> <<>>]))

DimensionsMatch(rr, ss, mm, nn) == rr * ss = 2^(mm * nn)

\* ---------------------------------------------------------------- debruijn

\* word[a:b]
Slice(w, a, b) == IF a >= Min(b, Len(w)) THEN <<>> ELSE SubSeq(w, a + 1, Min(b, Len(w)))

\* for j in range(order - i): word[i+j] = word[j]   (indices from 0)
RECURSIVE CopyLoop(_, _, _, _)
CopyLoop(w, i, j, ord) ==
    IF j >= ord - i THEN w
    ELSE CopyLoop([w EXCEPT ![i + j + 1] = w[j + 1]], i, j + 1, ord)

\* i = order; while i and word[i-1]: i -= 1
RECURSIVE ScanLoop(_, _)
ScanLoop(w, i) == IF i # 0 /\ w[i] # 0 THEN ScanLoop(w, i - 1) ELSE i

\* if i: word[i-1] = 1
SetLast(d, word1, i1) ==
    [d EXCEPT !.word = IF i1 # 0 THEN [word1 EXCEPT ![i1] = 1] ELSE word1, !.i = i1]

\* the scan for the last zero of the word, and its flip
ScanAndSet(d, word1) == SetLast(d, word1, ScanLoop(word1, d.order))

\* the pass that extends seq at every turn
ExtendedAlways(d) == [d EXCEPT !.seq = @ \o Slice(d.word, 0, d.i)]

\* if order % i == 0: seq.extend(word[:i])
Extended(d) ==
    IF d.order % d.i = 0 THEN [d EXCEPT !.seq = @ \o Slice(d.word, 0, d.i)] ELSE d

\* one pass of the body of `while i:`
DbIter(d) == ScanAndSet(Extended(d), CopyLoop(d.word, d.i, 0, d.order))

DbStart(ord) == [order |-> ord, seq |-> <<>>, word |-> Zeros(ord), i |-> 1]

RECURSIVE DbLoop(_)
DbLoop(d) == IF d.i = 0 THEN d.seq ELSE DbLoop(DbIter(d))

debruijn(ord) == DbLoop(DbStart(ord))

\* --------------------------------------------------------------- transpose

\* the length of the shortest line
Shortest(lines) ==
    IF Len(lines) = 0 THEN 0
    ELSE CHOOSE x \in {Len(lines[k]) : k \in 1..Len(lines)} :
             \A k \in 1..Len(lines) : x <= Len(lines[k])

\* zip(*lines): as many tuples as the shortest line is long
Zip(lines) == [j \in 1..Shortest(lines) |-> [k \in 1..Len(lines) |-> lines[k][j]]]

\* the lines transpose() reads from the scratch copy
OldLines(t, old) == [k \in 1..t.r |-> _read_to_array(old, (k - 1) * _bytes(t.s), t)]

\* what transpose() leaves once the old lines are read and zipped into cols
Transposed(t, old, cols, fail) ==
    IF fail.kind = "write" /\ fail.at < Len(cols)
    THEN [self |-> t, file |-> _write_from_array(_bytes(t.r), SubSeq(cols, 1, fail.at)),
          temp |-> <<old>>, err |-> "OSError", written |-> SubSeq(cols, 1, fail.at)]
    ELSE [self |-> [r |-> t.s, s |-> t.r, m |-> t.n, n |-> t.m,
                    row_sums |-> t.col_sums, col_sums |-> t.row_sums],
          file |-> _write_from_array(_bytes(t.r), cols),
          temp |-> <<>>, err |-> "none", written |-> cols]

\* transpose(); fail names the read or write an OSError is raised at, if any
TransposeRun(t, data, fail) ==
    IF fail.kind = "read" /\ fail.at < t.r
    THEN [self |-> t, file |-> <<>>, temp |-> <<data>>, err |-> "OSError", written |-> <<>>]
    ELSE Transposed(t, data, Zip(OldLines(t, data)), fail)

\* -------------------------------------------------------------------- make

\* rows are flushed to the file whenever min(num_rows, 2 ** 10) of them wait
BatchRows == 1024

\* the branch taken when only zero column sums are let through
MODEEvenOnly(t) == IF t.col_sums = <<>> THEN "EVEN" ELSE "ValueError"

\* the branch make() takes on self.col_sums
MODE(t) ==
    IF t.col_sums = <<>> THEN "EVEN"
    ELSE IF t.col_sums = AllOnes(t.s) THEN "ODD"
    ELSE "ValueError"

\* lst * k
Times(lst, k) ==
    IF k <= 0 \/ Len(lst) = 0 THEN <<>>
    ELSE SubSeq([q \in 1..(k * Len(lst)) |-> lst[((q - 1) % Len(lst)) + 1]], 1, k * Len(lst))

\* list(itertools.accumulate(lst, operator.xor))
Accumulate(lst) == [k \in 1..Len(lst) |-> _popcount(SubSeq(lst, 1, k)) % 2]

\* the seed make() works with: the argument, or debruijn() of the order
SeedOf(arg, ord) == IF arg.given THEN arg.val ELSE debruijn(ord)

\* the first line of the even construction with a 1 in column s - 1
FirstEvenOddBit(t, seed) ==
    Zeros(t.s - 1) \o <<1>> \o Times(Slice(seed, 1, Len(seed)), t.s)

\* the first line of the even construction
FirstEven(t, seed) == Zeros(t.s) \o Times(Slice(seed, 1, Len(seed)), t.s)

\* the first line of the odd construction for n >= 3
FirstOdd(t, seed) == Zeros(t.s) \o Times(Accumulate(Slice(seed, 0, Len(seed) - 1)), t.s)

\* the first line with no seed in it
FirstLineZeros(t, mode, arg) == Zeros(t.s)

\* the first line of the result, as a list
FirstLine(t, mode, arg) ==
    IF mode = "EVEN" THEN FirstEven(t, SeedOf(arg, t.n))
    ELSE IF t.n = 2 THEN Zeros(t.s) \o Times(<<0, 1>>, t.s \div 2)
    ELSE IF t.n >= 3 THEN FirstOdd(t, SeedOf(arg, t.n - 1))
    ELSE Zeros(t.s)

\* as many rows as before in either construction
NumRowsSame(t, mode) == t.r

NumRows(t, mode) == IF mode = "EVEN" THEN t.r ELSE 2 * t.r

\* what stands for 2 ** (n - 1) when n < 1: a float, which range() refuses
Float == -1

NumCopies(t, mode) ==
    IF mode = "EVEN" THEN 2^t.n
    ELSE IF t.n - 1 >= 0 THEN 2^(t.n - 1) ELSE Float

\* old_line_repeated: the sum of old_line << (s * i) for i in range(num_copies)
RECURSIVE Repeated(_, _, _, _, _)
Repeated(old_line, num_copies, ss, i, acc) ==
    IF i >= num_copies THEN acc
    ELSE Repeated(old_line, num_copies, ss, i + 1, Add(acc, ShiftLeft(old_line, ss * i)))

\* the lines of a flush that reach the file: up to the write that fails, or the
\* first line to_bytes() cannot hold
Flushable(rows, before, length, fail) ==
    Min(IF fail.kind = "write" /\ fail.at >= before /\ fail.at < before + Len(rows)
        THEN fail.at - before ELSE Len(rows),
        IF \A k \in 1..Len(rows) : Len(rows[k]) <= 8 * length THEN Len(rows)
        ELSE (CHOOSE k \in 1..Len(rows) :
                 /\ Len(rows[k]) > 8 * length
                 /\ \A x \in 1..(k - 1) : Len(rows[x]) <= 8 * length) - 1)

\* the loop's state after `ok` of the waiting lines are written
FlushTo(c, length, width, fail, ok) ==
    [c EXCEPT !.out = @ \o _write_from_num(length, SubSeq(c.result, 1, ok)),
              !.wr = @ \o [k \in 1..ok |-> Format(c.result[k], width)],
              !.result = IF ok = Len(c.result) THEN <<>> ELSE @,
              !.err = IF ok = Len(c.result) THEN "none"
                      ELSE IF fail.kind = "write" /\ fail.at = Len(c.wr) + ok THEN "OSError"
                      ELSE "OverflowError"]

\* if len(result) % min(num_rows, 2 ** 10) == 0: write the lines and clear them
Flush(c, num_rows, length, width, fail) ==
    IF Len(c.result) % Min(num_rows, BatchRows) = 0
    THEN FlushTo(c, length, width, fail, Flushable(c.result, Len(c.wr), length, fail))
    ELSE c

\* result.append(next_line) and the row and column sums
Appended(c, next_line, pos) ==
    [c EXCEPT !.next_line = next_line,
              !.result = Append(@, next_line),
              !.row_sums = Add(ShiftLeft(@, 1), Bit(_popcount(next_line) % 2)),
              !.col_sums = Xor(@, next_line),
              !.pos = pos]

\* one pass of `for row in range(num_rows - 1)`, the old line being read at pos
Pass(t, old, num_rows, num_copies, fail, c, pos) ==
    Flush(Appended(c,
                   Xor(c.next_line,
                       Repeated(_read_to_num(old, pos, t), num_copies, t.s, 0, <<>>)),
                   pos + Len(Read(old, pos, _bytes(t.s)))),
          num_rows, _bytes(t.s * num_copies), t.s * num_copies, fail)

\* the body of `for row in range(num_rows - 1)`, from `row` on
RECURSIVE MakeLoop(_, _, _, _, _, _, _)
MakeLoop(t, old, num_rows, num_copies, fail, c, row) ==
    IF row >= num_rows - 1 \/ c.err # "none" THEN c
    ELSE IF fail.kind = "read" /\ fail.at = row THEN [c EXCEPT !.err = "OSError"]
    ELSE IF num_copies = Float THEN [c EXCEPT !.err = "TypeError"]
    ELSE MakeLoop(t, old, num_rows, num_copies, fail,
                  Pass(t, old, num_rows, num_copies, fail, c,
                       IF row = t.r THEN 0 ELSE c.pos),
                  row + 1)

\* the loop's state before the first pass
LoopStart(next_line) ==
    [next_line |-> next_line, result |-> <<next_line>>,
     row_sums |-> Bit(_popcount(next_line) % 2), col_sums |-> next_line,
     out |-> <<>>, wr |-> <<>>, pos |-> 0, err |-> "none"]

\* what make() leaves when its loop ends in state c
Made(t, data, num_rows, num_copies, c) ==
    IF c.err # "none"
    THEN [self |-> [t EXCEPT !.row_sums = c.row_sums, !.col_sums = c.col_sums],
          file |-> c.out, temp |-> <<data>>, err |-> c.err, written |-> c.wr]
    ELSE [self |-> [t EXCEPT !.row_sums = c.row_sums, !.col_sums = c.col_sums,
                             !.r = num_rows, !.s = t.s * num_copies, !.m = t.m + 1],
          file |-> c.out, temp |-> <<>>, err |-> "none", written |-> c.wr]

\* make() once the construction is chosen
MakeIn(t, data, arg, fail, mode) ==
    Made(t, data, NumRows(t, mode), NumCopies(t, mode),
         MakeLoop(t, data, NumRows(t, mode), NumCopies(t, mode), fail,
                  LoopStart(_list_to_num(FirstLine(t, mode, arg))), 0))

\* make(seed); fail names the read or write an OSError is raised at, if any
MakeRun(t, data, arg, fail) ==
    IF MODE(t) = "ValueError"
    THEN [self |-> t, file |-> data, temp |-> <<>>, err |-> "ValueError", written |-> <<>>]
    ELSE MakeIn(t, data, arg, fail, MODE(t))

\* ------------------------------------------------------- de Bruijn structures

\* the m-by-n window of matrix M (r rows of s bits) whose corner is row i, column j,
\* row by row
Window(M, rr, ss, mm, nn, i, j) ==
    [q \in 1..(mm * nn) |->
        M[((i + ((q - 1) \div nn)) % rr) + 1][((j + ((q - 1) % nn)) % ss) + 1]]

\* M is an (r, s; m, n) de Bruijn torus: r * s = 2^(m*n) windows, no two alike,
\* so that each of the 2^(m*n) m-by-n matrices occurs exactly once
IsTorus(M, rr, ss, mm, nn) ==
    /\ mm >= 1 /\ nn >= 1
    /\ rr * ss = 2^(mm * nn)
    /\ Cardinality({Window(M, rr, ss, mm, nn, i, j) : i \in 0..(rr - 1), j \in 0..(ss - 1)})
         = rr * ss

\* q is a de Bruijn sequence of order k: 2^k cyclic windows of length k, no two alike
IsDeBruijn(q, k) ==
    /\ Len(q) = 2^k
    /\ Cardinality({[b \in 0..(k - 1) |-> q[((j + b) % Len(q)) + 1]] : j \in 0..(Len(q) - 1)})
         = 2^k

StartsWithZeros(q, k) == Len(q) >= k /\ \A j \in 1..k : q[j] = 0

\* the matrix the Torus reads from its store: r rows of s bits
StoredMatrix(t, data) == [k \in 1..t.r |-> _read_to_array(data, (k - 1) * _bytes(t.s), t)]

\* ----------------------------------------------------------------- inputs

\* the torus of sample-small.py
SampleSmall ==
    << <<0,0,1,0>>,
       <<0,0,0,1>>,
       <<0,1,1,1>>,
       <<1,0,1,1>> >>

\* the torus of sample-6x6.py, sample-large.py and sample-shiu.py
SampleLarge ==
    << <<0,0,1,1,0,0,1,0,0,0,1,1,0,1,1,1>>,
       <<0,0,1,1,0,0,0,1,0,1,1,0,0,0,0,1>>,
       <<0,0,1,1,0,1,1,1,0,0,1,1,0,0,1,0>>,
       <<1,1,0,0,1,0,1,1,1,0,0,1,1,0,1,1>> >>

\* the seed of sample-shiu.py
SampleSeed == <<0,0,0,1,1,1,0,1>>

Matrices(rr, ss) == [1..rr -> [1..ss -> {0, 1}]]

\* the inputs of one shape <<r, s, m, n>>: every r-by-s matrix
InputsOf(sh) == {[values |-> v, m |-> sh[3], n |-> sh[4]] : v \in Matrices(sh[1], sh[2])}

\* every matrix of at most 4 cells with every (m, n) <= 2 the constructor accepts for it
SmallShapes ==
    {sh \in {1, 2, 4} \X {1, 2, 4} \X (0..2) \X (0..2) :
        sh[1] * sh[2] <= 4 /\ DimensionsMatch(sh[1], sh[2], sh[3], sh[4])}

\* the shapes of 8 cells that have de Bruijn tori
ShapesOfEight == {<<1,8,1,3>>, <<2,4,1,3>>, <<4,2,3,1>>, <<8,1,3,1>>}

Inputs ==
    UNION {InputsOf(sh) : sh \in SmallShapes}
    \cup {x \in UNION {InputsOf(sh) : sh \in ShapesOfEight} :
            IsTorus(x.values, Len(x.values), Len(x.values[1]), x.m, x.n)}
    \cup {[values |-> SampleSmall, m |-> 2, n |-> 2], [values |-> SampleLarge, m |-> 3, n |-> 2]}

\* the seed of sample-shiu.py with the other de Bruijn sequences of orders 1 to 3
\* that start with zeros
Seeds == {<<0,1>>, <<0,0,1,1>>, <<0,0,0,1,0,1,1,1>>, SampleSeed}

\* the order of the seed make() reads: n for even column sums, n - 1 for odd
SeedOrder(t) == IF MODE(t) = "EVEN" THEN t.n ELSE t.n - 1

\* the seeds make() is called with: none, or one the docstring allows
SeedArgs(t) ==
    {NoSeed} \cup
    {[given |-> TRUE, val |-> q] : q \in {x \in Seeds :
        /\ MODE(t) # "ValueError"
        /\ SeedOrder(t) >= 1
        /\ IsDeBruijn(x, SeedOrder(t))
        /\ StartsWithZeros(x, SeedOrder(t))}}

\* ------------------------------------------------------------ state machine

Snap == [self |-> self, file |-> file, temp |-> temp]

DbIdle == [order |-> 0, seq |-> <<>>, word |-> <<>>, i |-> 0]

\* the state once the constructor has returned o
Starts(o) ==
    /\ self = o.self
    /\ file = o.file
    /\ temp = o.temp
    /\ err = o.err
    /\ written = o.written
    /\ hist = <<>>
    /\ prior = [self |-> o.self, file |-> o.file, temp |-> o.temp]
    /\ prior2 = [self |-> o.self, file |-> o.file, temp |-> o.temp]

Init ==
    /\ \E x \in Inputs : Starts(Construct(x.values, x.m, x.n))
    /\ db = DbIdle

\* the Torus can be called: the last call returned, or raised before touching anything
Usable == err \in {"none", "ValueError"} /\ Len(hist) < MaxOps

Fits(t) == (t.m + 1) * t.n <= MaxLog

Apply(o, call) ==
    /\ self' = o.self
    /\ file' = o.file
    /\ temp' = o.temp
    /\ err' = o.err
    /\ written' = o.written
    /\ hist' = Append(hist, [op |-> call.op, seed |-> call.seed, err |-> o.err])
    /\ prior' = Snap
    /\ prior2' = prior
    /\ UNCHANGED db

FailPoints == {[kind |-> k, at |-> a] : k \in {"read", "write"}, a \in 0..MaxFail}

Transpose ==
    /\ Usable
    /\ Apply(TransposeRun(self, file, NoFail), [op |-> "transpose", seed |-> NoSeed])

\* transpose() with a storage failure
TransposeFails ==
    /\ Usable
    /\ \E fail \in FailPoints :
          \E o \in {TransposeRun(self, file, fail)} :
              /\ o.err = "OSError"
              /\ Apply(o, [op |-> "transpose", seed |-> NoSeed])

\* make(seed): it returns, or raises on its own
Make ==
    /\ Usable
    /\ Fits(self)
    /\ \E arg \in SeedArgs(self) :
          Apply(MakeRun(self, file, arg, NoFail), [op |-> "make", seed |-> arg])

\* make(seed) with a storage failure
MakeFails ==
    /\ Usable
    /\ Fits(self)
    /\ \E arg \in SeedArgs(self), fail \in FailPoints :
          \E o \in {MakeRun(self, file, arg, fail)} :
              /\ o.err = "OSError"
              /\ Apply(o, [op |-> "make", seed |-> arg])

Next == Transpose \/ TransposeFails \/ Make \/ MakeFails

Spec == Init /\ [][Next]_vars

\* debruijn(order), one pass of its loop at a time
InitDb ==
    /\ db \in {DbStart(k) : k \in 1..MaxDbOrder}
    /\ Starts(Construct(<< <<0>> >>, 0, 0))

DbStep ==
    /\ db.i # 0
    /\ db' = DbIter(db)
    /\ UNCHANGED <<self, file, temp, err, written, hist, prior, prior2>>

NextDb == DbStep

SpecDb == InitDb /\ [][NextDb]_vars /\ WF_vars(DbStep)

\* ---------------------------------------------------- what the claims read

\* the last call was `op`
Called(op) == Len(hist) >= 1 /\ hist[Len(hist)].op = op

\* the last two calls were both transpose() and both returned
TransposedTwice ==
    /\ Len(hist) >= 2
    /\ hist[Len(hist) - 1].op = "transpose" /\ hist[Len(hist) - 1].err = "none"
    /\ hist[Len(hist)].op = "transpose" /\ hist[Len(hist)].err = "none"

\* every call so far returned
AllReturned == \A k \in 1..Len(hist) : hist[k].err = "none"

\* the row sums of a matrix recomputed from its rows: bit k is the parity of row k
RowParity(M) == Strip([k \in 1..Len(M) |-> _popcount(M[k]) % 2])

\* the column sums of a matrix recomputed from its rows: bit j is the parity of column j
ColParity(M, ss) ==
    Strip([j \in 1..ss |-> Cardinality({k \in 1..Len(M) : M[k][j] = 1}) % 2])

\* bit j of the 8 * length bits of record k of the file, the first byte's top bit first
RecordBit(data, k, length, j) ==
    ByteBit(data[(k - 1) * length + ((j - 1) \div 8) + 1], ((j - 1) % 8) + 1)

\* the matrix before the last call, and the matrix now
Before == StoredMatrix(prior.self, prior.file)
Now == StoredMatrix(self, file)

\* the Torus before the last call held a de Bruijn torus
WasTorus == IsTorus(Before, prior.self.r, prior.self.s, prior.self.m, prior.self.n)

\* the Torus holds a de Bruijn torus of its (r, s; m, n)
NowTorus == IsTorus(Now, self.r, self.s, self.m, self.n)

\* the Torus has the dimensions (rr, ss; mm, nn), and they match
HasShape(rr, ss, mm, nn) ==
    /\ self.r = rr /\ self.s = ss /\ self.m = mm /\ self.n = nn
    /\ self.r * self.s = 2^(self.m * self.n)

\* ------------------------------------------------------------------ claims


\* C1: when the store holds a de Bruijn torus (r, s; m, n) and make() is called
\* with the default seed, then with every column sum even the store afterwards
\* holds a de Bruijn torus (r, s * 2^n; m + 1, n), and with every column sum odd
\* and n >= 2 it holds a de Bruijn torus (2r, s * 2^(n-1); m + 1, n); either way
\* n is unchanged and r * s = 2^(m * n) for the new dimensions.
MakeGrowsTorus ==
    (/\ Called("make")
     /\ ~hist[Len(hist)].seed.given
     /\ err # "OSError"
     /\ \/ ColParity(Before, prior.self.s) = <<>>
        \/ ColParity(Before, prior.self.s) = Ones(prior.self.s) /\ prior.self.n >= 2
     /\ WasTorus)
    => /\ err = "none"
       /\ NowTorus
       /\ self.n = prior.self.n
       /\ self.r * self.s = 2^(self.m * self.n)
       /\ IF ColParity(Before, prior.self.s) = <<>>
          THEN HasShape(prior.self.r, prior.self.s * 2^prior.self.n,
                        prior.self.m + 1, prior.self.n)
          ELSE HasShape(2 * prior.self.r, prior.self.s * 2^(prior.self.n - 1),
                        prior.self.m + 1, prior.self.n)

\* C1 happens: a torus with odd column sums was grown by make(), and the result,
\* a torus with even column sums and n >= 2, was grown by make() again
MakeGrowsTorusWitness ==
    /\ Len(hist) = 2
    /\ hist[1] = [op |-> "make", seed |-> NoSeed, err |-> "none"]
    /\ hist[2] = [op |-> "make", seed |-> NoSeed, err |-> "none"]
    /\ prior2.self.col_sums = Ones(prior2.self.s)
    /\ prior2.self.n >= 2
    /\ prior.self.r = 2 * prior2.self.r
    /\ WasTorus
    /\ ColParity(Before, prior.self.s) = <<>>
    /\ self.r = prior.self.r
    /\ self.s = prior.self.s * 2^prior.self.n
    /\ NowTorus

\* C2: after the constructor and after any run of transpose() and make() calls
\* that all returned, row_sums and col_sums are what a recomputation from the
\* r rows of ceil(s/8) bytes in the store gives.
SumsMatchStore ==
    (err = "none" /\ AllReturned)
    => /\ self.row_sums = RowParity(Now)
       /\ self.col_sums = ColParity(Now, self.s)

\* C3: transpose() twice restores the bytes of the store, (r, s, m, n) and both sums.
TransposeTwiceRestores ==
    TransposedTwice => (file = prior2.file /\ self = prior2.self)


\* C4: debruijn(k), k >= 1, terminates, and what it returns has length 2^k,
\* starts with k zeros and holds every window of k bits exactly once, cyclically.
DebruijnCorrect ==
    /\ <>(db.i = 0)
    /\ [](db.i = 0 => /\ Len(db.seq) = 2^db.order
                      /\ \A j \in 1..Len(db.seq) : db.seq[j] \in {0, 1}
                      /\ StartsWithZeros(db.seq, db.order)
                      /\ IsDeBruijn(db.seq, db.order))

\* C4 happens: debruijn() of the largest order has returned a sequence, and the
\* sequence is not all zeros
DebruijnCorrectWitness ==
    /\ db.order = MaxDbOrder
    /\ db.i = 0
    /\ Len(db.seq) = 2^MaxDbOrder
    /\ db.seq[Len(db.seq)] = 1


\* C5, as the code has it: every line written is stored right-justified in its
\* record of ceil(s/8) bytes: the 8 * ceil(s/8) - s unused bits are the leading
\* bits of the record's first byte and are zero, column j follows them most
\* significant bit first, and the records follow one another with nothing between.
RowsRightJustified ==
    err # "ValueError"
    => \A k \in 1..Len(written) :
         /\ Len(file) = Len(written) * _bytes(Len(written[k]))
         /\ \A j \in 1..(8 * _bytes(Len(written[k]))) :
              RecordBit(file, k, _bytes(Len(written[k])), j)
                = IF j <= 8 * _bytes(Len(written[k])) - Len(written[k]) THEN 0
                  ELSE written[k][j - (8 * _bytes(Len(written[k])) - Len(written[k]))]

\* C5 happens: a call has written at least 4 rows of 4 bits, and a row with a 1
\* in its first column has bit 3 of its byte set and the four bits above it clear
RowsRightJustifiedWitness ==
    /\ Len(hist) >= 1
    /\ err = "none"
    /\ self.s % 8 = 4
    /\ self.r >= 4
    /\ Len(written) = self.r
    /\ \E k \in 1..self.r : written[k][1] = 1 /\ file[k * _bytes(self.s)] \div 8 = 1

\* C5, as the claim has it: every line written is stored left-justified: column j
\* (from 0) is bit 7 - j mod 8 of byte floor(j/8) of the record, and the unused
\* bits at the end of the last byte are zero.
RowsLeftJustified ==
    err # "ValueError"
    => \A k \in 1..Len(written) :
         /\ Len(file) = Len(written) * _bytes(Len(written[k]))
         /\ \A j \in 1..(8 * _bytes(Len(written[k]))) :
              RecordBit(file, k, _bytes(Len(written[k])), j)
                = IF j <= Len(written[k]) THEN written[k][j] ELSE 0

\* C6: make() raises the ValueError for the column sums exactly when col_sums is
\* neither 0 nor 2^s - 1, and then r, s, m, n, row_sums, col_sums and the bytes
\* of the store are as they were and there is no scratch copy.
ParityErrorExact ==
    Called("make")
    => /\ err = "ValueError"
            <=> prior.self.col_sums \notin {<<>>, Ones(prior.self.s)}
       /\ err = "ValueError" => (self = prior.self /\ file = prior.file /\ temp = <<>>)

\* C6 happens: make() raised the ValueError on a Torus with rows in its store
\* and some columns even, some odd
ParityErrorExactWitness ==
    /\ Called("make")
    /\ err = "ValueError"
    /\ prior.self.r >= 2
    /\ Len(prior.file) = prior.self.r * _bytes(prior.self.s)
    /\ \E j \in 1..Len(prior.self.col_sums) : prior.self.col_sums[j] = 0

\* C7, as the code has it: with col_sums = 2^s - 1 and n < 2 and no storage
\* failure, make() with n = 1 returns, having written 2r rows of s bits and set
\* (2r, s; m + 1, 1), and the rows are a de Bruijn torus when the old ones were;
\* with n <= 0 it raises a TypeError after it has reset both sums to 0 and
\* emptied the store, it leaves r, s, m, n alone and leaves the scratch copy.
OddSmallOrderRuns ==
    (/\ Called("make")
     /\ err # "OSError"
     /\ prior.self.col_sums = Ones(prior.self.s)
     /\ prior.self.n < 2)
    => /\ prior.self.n = 1
          => /\ err = "none"
             /\ HasShape(2 * prior.self.r, prior.self.s, prior.self.m + 1, 1)
             /\ Len(written) = 2 * prior.self.r
             /\ Len(file) = 2 * prior.self.r * _bytes(prior.self.s)
             /\ temp = <<>>
             /\ WasTorus => NowTorus
       /\ prior.self.n <= 0
          => /\ err = "TypeError"
             /\ self = [prior.self EXCEPT !.row_sums = <<>>, !.col_sums = <<>>]
             /\ file = <<>>
             /\ temp = <<prior.file>>

\* C7 happens: make() took the odd construction with n = 1 on a torus and
\* returned twice as many rows, not all of them zero
OddSmallOrderRunsWitness ==
    /\ Called("make")
    /\ err = "none"
    /\ prior.self.col_sums = Ones(prior.self.s)
    /\ prior.self.n = 1
    /\ WasTorus
    /\ self.r = 2 * prior.self.r
    /\ file # prior.file
    /\ \E k \in 1..Len(file) : file[k] # 0

\* C7, as the claim has it: with col_sums = 2^s - 1 and n < 2, make() raises, and
\* the store, the dimensions and the sums are not rewritten.
OddSmallOrderRefused ==
    (/\ Called("make")
     /\ prior.self.col_sums = Ones(prior.self.s)
     /\ prior.self.n < 2)
    => /\ err # "none"
       /\ self = prior.self
       /\ file = prior.file

\* C8: when a read or write fails during the rewrite of transpose() or make(),
\* the store still holds the bytes it held before the call.
StoreSurvivesFailure ==
    err = "OSError" => file = prior.file

\* C9: after make() on a Torus with col_sums = 0 and n >= 2, with the default
\* seed or a de Bruijn seed of order n that starts with n zeros, row_sums is 0
\* and every row written and every row in the store has an even number of 1s;
\* after a transpose() that follows, col_sums is 0 and make() takes the even
\* construction.
EvenKeepsRowsEven ==
    /\ (/\ Called("make")
        /\ err = "none"
        /\ prior.self.col_sums = <<>>
        /\ prior.self.n >= 2)
       => /\ self.row_sums = <<>>
          /\ \A k \in 1..Len(written) : _popcount(written[k]) % 2 = 0
          /\ \A k \in 1..self.r : _popcount(Now[k]) % 2 = 0
    /\ (/\ Len(hist) >= 2
        /\ hist[Len(hist) - 1].op = "make" /\ hist[Len(hist) - 1].err = "none"
        /\ prior2.self.col_sums = <<>>
        /\ prior2.self.n >= 2
        /\ Called("transpose")
        /\ err = "none")
       => /\ self.col_sums = <<>>
          /\ MODE(self) = "EVEN"

\* C9 happens: make() with a seed took the even construction with n >= 2 on a
\* torus and wrote rows that are not all zero, and transpose() followed
EvenKeepsRowsEvenWitness ==
    /\ Len(hist) >= 2
    /\ hist[Len(hist) - 1].op = "make" /\ hist[Len(hist) - 1].err = "none"
    /\ hist[Len(hist) - 1].seed.given
    /\ prior2.self.col_sums = <<>>
    /\ prior2.self.n >= 2
    /\ IsTorus(StoredMatrix(prior2.self, prior2.file),
               prior2.self.r, prior2.self.s, prior2.self.m, prior2.self.n)
    /\ Called("transpose")
    /\ err = "none"
    /\ self.col_sums = <<>>
    /\ \E k \in 1..Len(file) : file[k] # 0

\* C10: after every make() that returns, all the rows it generated are in the
\* store, in order: the store holds r records of ceil(s/8) bytes for the new r
\* and s, and the rows written are the rows the new sums were taken from.
MakeWritesEveryRow ==
    (Called("make") /\ err = "none")
    => /\ Len(written) = self.r
       /\ Len(file) = self.r * _bytes(self.s)
       /\ self.row_sums = RowParity(written)
       /\ self.col_sums = ColParity(written, self.s)

====
